---- MODULE Spec2Model ----
(***************************************************************************)
(* Wavefront path-trace integrator (src/src/path_trace_integrator.cpp).    *)
(* The host side (constructor, Reset, SetCameraData, SetSceneData and the  *)
(* stages of Integrate) is translated from the source.  The device kernels *)
(* (OpenCL), the dispatch facade (CLContext / CLKernel) and the acceleration *)
(* structure are not part of the source tree; they are modelled from their *)
(* documented contracts.                                                   *)
(***************************************************************************)
EXTENDS Integers, Sequences, FiniteSets, TLC

(* ------------------------------ bounds --------------------------------- *)
\* Largest value of the configuration constant max_bounces_.
MaxBounces == 2
\* Largest number of Integrate() calls of a run.
MaxFrames == 2

\* Seeds rand() can return and cameras / scenes the caller can pass.
Seeds == {1, 2}
Cameras == {1}
Scenes == {1}
\* Resolutions the integrator is constructed with: one or two pixels.
Widths == {1, 2}
Heights == {1}
\* Acceleration structures the integrator is constructed over: one built
\* over geometry, and one built over no geometry, which no ray hits.
AccStructures == {"geometry", "empty"}

(* ------------------------- program constants --------------------------- *)
CL_SUCCESS == 0
\* Error statuses a failing clCreate* call can report.
ErrorStatuses == {-5, -6}
\* Radiance the environment returns for a missed ray and a light returns
\* for a ray that hits it (times the throughput, which is 1).
EnvColor == 1
\* What shading a hit can decide: the surface absorbs the path, the surface
\* is a light that ends the path, or the path is scattered on.
HitOutcomes == {"absorb", "light", "scatter"}

(* ------------------------------ state ---------------------------------- *)
VARIABLES
    width, height,              \* width_, height_
    max_bounces,                \* max_bounces_
    acc_structure,              \* acc_structure_
    pc,                         \* position of the controlling thread
    ctorIdx,                    \* next resource the constructor creates
    status,                     \* the constructor's local cl_int status
    lastFailure,                \* history: last resource whose creation failed
    thrown,                     \* exception that left the current call, if any
    bounce,                     \* loop variable of Integrate
    radiance_buffer,            \* [pixel -> accumulated radiance]
    rays_buffer,                \* [0..1 -> [slot -> path]]
    pixel_indices_buffer,       \* [0..1 -> [slot -> pixel]]
    ray_counter_buffer,         \* [0..1 -> counter]
    hits_buffer,                \* [slot -> "hit" | "miss" | "undef"]
    throughputs_buffer,         \* [slot -> path whose throughput it holds]
    sample_counter_buffer,      \* SampleCounter
    output_image,               \* [pixel -> <<radiance, samples>>] resolved
    acquired,                   \* the GL object is held acquired
    raygen_args, miss_args, hit_surface_args, resolve_args, reset_args,
    clear_counter_args, increment_counter_args,   \* bound kernel arguments
    intersect_args,             \* arguments of the last AccelerationStructure::IntersectRays
    pending,                    \* work-items of the hit-surface dispatch not yet run
    trace,                      \* history: stages issued by the current Integrate
    frames,                     \* history: Integrate() calls so far
    completed,                  \* history: completed Integrate() calls since the last Reset
    preRadiance, preSample,     \* history: accumulator and counter at Integrate() entry
    surface_log,                \* history: calls of the last ResolveRadiance() that returned
    generated_with,             \* history: arguments the last generation dispatch ran with
    configured,                 \* history: which of SetCameraData / SetSceneData have been called
    contributed                 \* history: [pixel -> radiance the shading stages added since the last Reset]

dimVars  == <<width, height, max_bounces, acc_structure>>
ctorVars == <<ctorIdx, status, lastFailure>>
bufVars  == <<radiance_buffer, rays_buffer, pixel_indices_buffer, ray_counter_buffer,
              hits_buffer, throughputs_buffer, sample_counter_buffer, output_image,
              acquired>>
argVars  == <<raygen_args, miss_args, hit_surface_args, resolve_args, reset_args,
              clear_counter_args, increment_counter_args, intersect_args>>
histVars == <<trace, frames, completed, preRadiance, preSample, surface_log, contributed,
             generated_with, configured>>
vars == <<dimVars, ctorVars, pc, thrown, bounce, bufVars, argVars, pending, histVars>>

\* std::uint32_t num_rays = width_ * height_; (far below 2^32 at the modelled
\* resolutions, so the 32-bit product does not wrap)
NumRays == width * height
Slots == 0 .. (NumRays - 1)
Pixels == 0 .. (NumRays - 1)

Undef == -1
NoError == <<"none", 0>>
NoFailure == <<"none", 0>>

\* Every device resource of the integrator exists.  An integrator built
\* over a resource whose creation failed hands a null buffer to the device;
\* what its later dispatches do is outside the model, which stops there.
ResourcesCreated == lastFailure = NoFailure

(* --------------------------- kernel arguments -------------------------- *)
Unbound == <<"unbound", 0>>
Handle(name, i) == <<name, i>>
Scalar(v) == <<"value", v>>

RaygenSlots == {"kWidth", "kHeight", "kCameraPos", "kCameraFront", "kCameraUp",
                "kFrameCount", "kFrameSeed", "kAperture", "kFocusDistance",
                "kRayBuffer", "kRayCounterBuffer", "kPixelIndicesBuffer",
                "kThroughputsBuffer"}
MissSlots == {"kRayBuffer", "kRayCounterBuffer", "kHitsBuffer", "kPixelIndicesBuffer",
              "kThroughputsBuffer", "kIblTextureBuffer", "kRadianceBuffer"}
HitSurfaceSlots == {"kIncomingRayBuffer", "kIncomingRayCounterBuffer",
                    "kIncomingPixelIndicesBuffer", "kHitsBuffer", "kTrianglesBuffer",
                    "kMaterialsBuffer", "kBounce", "kWidth", "kHeight",
                    "kSampleCounterBuffer", "kSobolBuffer", "kScramblingTileBuffer",
                    "kRankingTileBuffer", "kThroughputsBuffer", "kOutgoingRayBuffer",
                    "kOutgoingRayCounterBuffer", "kOutgoingPixelIndicesBuffer",
                    "kRadianceBuffer"}
ResolveSlots == {"kWidth", "kHeight", "kRadianceBuffer", "kSampleCounterBuffer",
                 "kResolvedTexture"}
ResetSlots == {"0", "1", "2"}
CounterSlots == {"0"}
IntersectSlots == {"rays", "ray_counter", "max_num_rays", "hits"}

AllBound(args) == \A s \in DOMAIN args : args[s] # Unbound

\* SetArgument(slot, value): rebinding one slot of a kernel
SetArgument(args, slot, value) == [args EXCEPT ![slot] = value]


UnboundArgs(slots) == [s \in slots |-> Unbound]

(* ------------------------------- Init ---------------------------------- *)
\* The constructor is entered with resolution w x h over acceleration
\* structure acc; mb is the configured max_bounces_.
Entry(w, h, mb, acc) ==
    /\ width = w
    /\ height = h
    /\ max_bounces = mb
    /\ acc_structure = acc
    /\ pc = "Ctor"
    /\ ctorIdx = 1
    /\ status = CL_SUCCESS
    /\ lastFailure = NoFailure
    /\ thrown = NoError
    /\ bounce = 0
    /\ radiance_buffer = [p \in Pixels |-> 0]
    /\ rays_buffer = [i \in 0 .. 1 |-> [s \in Slots |-> Undef]]
    /\ pixel_indices_buffer = [i \in 0 .. 1 |-> [s \in Slots |-> Undef]]
    /\ ray_counter_buffer = [i \in 0 .. 1 |-> 0]
    /\ hits_buffer = [s \in Slots |-> "undef"]
    /\ throughputs_buffer = [s \in Slots |-> Undef]
    /\ sample_counter_buffer = 0
    /\ output_image = [p \in Pixels |-> <<0, 0>>]
    /\ acquired = FALSE
    /\ raygen_args = UnboundArgs(RaygenSlots)
    /\ miss_args = UnboundArgs(MissSlots)
    /\ hit_surface_args = UnboundArgs(HitSurfaceSlots)
    /\ resolve_args = UnboundArgs(ResolveSlots)
    /\ reset_args = UnboundArgs(ResetSlots)
    /\ clear_counter_args = UnboundArgs(CounterSlots)
    /\ increment_counter_args = UnboundArgs(CounterSlots)
    /\ intersect_args = UnboundArgs(IntersectSlots)
    /\ pending = {}
    /\ trace = <<>>
    /\ frames = 0
    /\ completed = 0
    /\ preRadiance = [p \in Pixels |-> 0]
    /\ preSample = 0
    /\ surface_log = <<>>
    /\ configured = {}
    /\ generated_with = UnboundArgs(RaygenSlots)
    /\ contributed = [p \in Pixels |-> 0]

Init == \E w \in Widths, h \in Heights, mb \in 0 .. MaxBounces, acc \in AccStructures :
            Entry(w, h, mb, acc)

(* ---------------------------- constructor ------------------------------ *)
\* The device resources in the order the constructor creates them.
CtorResources ==
    << "radiance_buffer",
       "rays_buffer[0]", "pixel_indices_buffer[0]", "ray_counter_buffer[0]",
       "rays_buffer[1]", "pixel_indices_buffer[1]", "ray_counter_buffer[1]",
       "hits_buffer", "throughputs_buffer",
       "sample_counter_buffer", "sampler_sobol_buffer",
       "sampler_scrambling_tile_buffer", "sampler_ranking_tile_buffer",
       "output_image" >>

\* if (status != CL_SUCCESS) throw ...: the creations after which the
\* constructor looks at status, and the message it throws there.
StatusChecks == {9, 14}
CheckMessage(i) == IF i = 9 THEN "Failed to create radiance buffer"
                   ELSE "Failed to create output image"

\* One creation: the call overwrites status; a check follows only where the
\* source has one.
CreateResource ==
    /\ pc = "Ctor"
    /\ ctorIdx <= Len(CtorResources)
    /\ \E st \in {CL_SUCCESS} \cup ErrorStatuses :
        /\ status' = st
        /\ lastFailure' = IF st # CL_SUCCESS THEN <<CtorResources[ctorIdx], st>>
                          ELSE lastFailure
        /\ IF ctorIdx \in StatusChecks /\ st # CL_SUCCESS
           THEN /\ thrown' = <<CheckMessage(ctorIdx), st>>
                /\ pc' = "CtorFailed"
                /\ ctorIdx' = ctorIdx
           ELSE /\ thrown' = thrown
                /\ pc' = pc
                /\ ctorIdx' = ctorIdx + 1
    /\ UNCHANGED <<dimVars, bounce, bufVars, argVars, pending, histVars>>

\* Contents of freshly allocated device memory.
GarbageCounters == {0, NumRays + 1}
GarbageRadiance == {[p \in Pixels |-> v] : v \in {0, 1}}
GarbageSamples == {0, 1}

\* raygen_kernel_->SetArgument(...) of the constructor
RaygenBindings_Counter1 ==
    [s \in RaygenSlots |->
        CASE s = "kWidth" -> Scalar(width)
          [] s = "kHeight" -> Scalar(height)
          [] s = "kRayBuffer" -> Handle("rays_buffer", 0)
          [] s = "kRayCounterBuffer" -> Handle("ray_counter_buffer", 1)
          [] s = "kPixelIndicesBuffer" -> Handle("pixel_indices_buffer", 0)
          [] s = "kThroughputsBuffer" -> Handle("throughputs_buffer", 0)
          [] OTHER -> Unbound]
RaygenBindings ==
    [s \in RaygenSlots |->
        CASE s = "kWidth" -> Scalar(width)
          [] s = "kHeight" -> Scalar(height)
          [] s = "kRayBuffer" -> Handle("rays_buffer", 0)
          [] s = "kRayCounterBuffer" -> Handle("ray_counter_buffer", 0)
          [] s = "kPixelIndicesBuffer" -> Handle("pixel_indices_buffer", 0)
          [] s = "kThroughputsBuffer" -> Handle("throughputs_buffer", 0)
          [] OTHER -> Unbound]

\* miss_kernel_->SetArgument(...) of the constructor
MissBindings ==
    [s \in MissSlots |->
        CASE s = "kHitsBuffer" -> Handle("hits_buffer", 0)
          [] s = "kThroughputsBuffer" -> Handle("throughputs_buffer", 0)
          [] s = "kRadianceBuffer" -> Handle("radiance_buffer", 0)
          [] OTHER -> Unbound]

\* hit_surface_kernel_->SetArgument(...) of the constructor
HitSurfaceBindings_NoSobol ==
    [s \in HitSurfaceSlots |->
        CASE s = "kHitsBuffer" -> Handle("hits_buffer", 0)
          [] s = "kThroughputsBuffer" -> Handle("throughputs_buffer", 0)
          [] s = "kRadianceBuffer" -> Handle("radiance_buffer", 0)
          [] s = "kWidth" -> Scalar(width)
          [] s = "kHeight" -> Scalar(height)
          [] s = "kSampleCounterBuffer" -> Handle("sample_counter_buffer", 0)
          [] s = "kScramblingTileBuffer" -> Handle("sampler_scrambling_tile_buffer", 0)
          [] s = "kRankingTileBuffer" -> Handle("sampler_ranking_tile_buffer", 0)
          [] OTHER -> Unbound]
HitSurfaceBindings ==
    [s \in HitSurfaceSlots |->
        CASE s = "kHitsBuffer" -> Handle("hits_buffer", 0)
          [] s = "kThroughputsBuffer" -> Handle("throughputs_buffer", 0)
          [] s = "kRadianceBuffer" -> Handle("radiance_buffer", 0)
          [] s = "kWidth" -> Scalar(width)
          [] s = "kHeight" -> Scalar(height)
          [] s = "kSampleCounterBuffer" -> Handle("sample_counter_buffer", 0)
          [] s = "kSobolBuffer" -> Handle("sampler_sobol_buffer", 0)
          [] s = "kScramblingTileBuffer" -> Handle("sampler_scrambling_tile_buffer", 0)
          [] s = "kRankingTileBuffer" -> Handle("sampler_ranking_tile_buffer", 0)
          [] OTHER -> Unbound]

\* resolve_kernel_->SetArgument(...) of the constructor
ResolveBindings_RayCounter ==
    [s \in ResolveSlots |->
        CASE s = "kWidth" -> Scalar(width)
          [] s = "kHeight" -> Scalar(height)
          [] s = "kSampleCounterBuffer" -> Handle("ray_counter_buffer", 0)
          [] s = "kRadianceBuffer" -> Handle("radiance_buffer", 0)
          [] s = "kResolvedTexture" -> Handle("output_image", 0)]
ResolveBindings ==
    [s \in ResolveSlots |->
        CASE s = "kWidth" -> Scalar(width)
          [] s = "kHeight" -> Scalar(height)
          [] s = "kSampleCounterBuffer" -> Handle("sample_counter_buffer", 0)
          [] s = "kRadianceBuffer" -> Handle("radiance_buffer", 0)
          [] s = "kResolvedTexture" -> Handle("output_image", 0)]

\* reset_kernel_->SetArgument(0..2, ...) of the constructor
ResetBindings ==
    [s \in ResetSlots |->
        CASE s = "0" -> Scalar(width)
          [] s = "1" -> Scalar(height)
          [] s = "2" -> Handle("radiance_buffer", 0)]

\* The second status check passed: the kernels are created and set up.  The
\* memory allocated above holds whatever it held before.
CreateKernels ==
    /\ pc = "Ctor"
    /\ ctorIdx > Len(CtorResources)
    /\ \E ok \in BOOLEAN :
        IF ok
        THEN /\ raygen_args' = RaygenBindings
             /\ miss_args' = MissBindings
             /\ hit_surface_args' = HitSurfaceBindings
             /\ resolve_args' = ResolveBindings
             /\ reset_args' = ResetBindings
             /\ radiance_buffer' \in GarbageRadiance
             /\ ray_counter_buffer' \in [0 .. 1 -> GarbageCounters]
             /\ sample_counter_buffer' \in GarbageSamples
             /\ pc' = "CtorReset"
             /\ thrown' = thrown
        ELSE /\ UNCHANGED <<raygen_args, miss_args, hit_surface_args, resolve_args,
                            reset_args, radiance_buffer, ray_counter_buffer,
                            sample_counter_buffer>>
             /\ pc' = "CtorFailed"
             /\ thrown' = <<"Failed to create kernel", -5>>
    /\ UNCHANGED <<dimVars, ctorVars, bounce, rays_buffer, pixel_indices_buffer,
                   hits_buffer, throughputs_buffer, output_image, acquired,
                   clear_counter_args, increment_counter_args, intersect_args,
                   pending, histVars>>


(* --------------------- dispatch facade and kernels --------------------- *)
\* ExecuteKernel: the enqueue either succeeds or fails (the exception leaves
\* the calling method); it cannot succeed with an argument slot never set.
DispatchError == <<"Failed to execute kernel", -5>>
CanExecute(args, ok) == ok /\ AllBound(args)

\* clear_counter.cl: one work-item stores 0 in the first element of the
\* buffer bound to slot 0.
ClearCounterKernel(target) ==
    [sample |-> IF target[1] = "sample_counter_buffer" THEN 0
                ELSE sample_counter_buffer,
     radiance |-> IF target[1] = "radiance_buffer"
                  THEN [radiance_buffer EXCEPT ![0] = 0]
                  ELSE radiance_buffer,
     rays   |-> IF target[1] = "ray_counter_buffer"
                THEN [ray_counter_buffer EXCEPT ![target[2]] = 0]
                ELSE ray_counter_buffer]

\* increment_counter.cl: one work-item adds 1 to the counter bound to slot 0.
IncrementCounterKernel(target) ==
    [sample |-> IF target[1] = "sample_counter_buffer"
                THEN (sample_counter_buffer + 1)
                ELSE sample_counter_buffer,
     rays   |-> IF target[1] = "ray_counter_buffer"
                THEN [ray_counter_buffer EXCEPT ![target[2]] = (@ + 1)]
                ELSE ray_counter_buffer]

\* reset_radiance.cl over n work-items: work-item p zeroes pixel p.
ResetRadianceKernel(n) ==
    [p \in Pixels |-> IF p < n THEN 0 ELSE radiance_buffer[p]]

\* raygeneration.cl over n work-items: work-item g writes the camera ray of
\* pixel g, its pixel index and the initial throughput to slot g, and the
\* ray counter is set to width * height.
RayGenerationKernel(args, n) ==
    LET r == args["kRayBuffer"][2]
        c == args["kRayCounterBuffer"][2]
        x == args["kPixelIndicesBuffer"][2]
        w == args["kWidth"][2]
        h == args["kHeight"][2]
    IN /\ rays_buffer' = [rays_buffer EXCEPT
                            ![r] = [s \in Slots |-> IF s < n THEN s ELSE @[s]]]
       /\ pixel_indices_buffer' = [pixel_indices_buffer EXCEPT
                            ![x] = [s \in Slots |-> IF s < n THEN s ELSE @[s]]]
       /\ throughputs_buffer' = [s \in Slots |-> IF s < n THEN s
                                                 ELSE throughputs_buffer[s]]
       /\ ray_counter_buffer' = [ray_counter_buffer EXCEPT ![c] = (w * h)]

\* AccelerationStructure::IntersectRays(rays, counter, max, hits): one hit
\* record for each of the first min(counter, max) rays; entries beyond are
\* unspecified.
IntersectResults(counter, max) ==
    LET n == IF counter < max THEN counter ELSE max
        records == IF acc_structure = "empty" THEN {"miss"} ELSE {"hit", "miss"}
    IN { [s \in Slots |-> IF s < n THEN f[s] ELSE "undef"] :
            f \in [0 .. (n - 1) -> records] }

\* miss.cl over n work-items: work-item g < counter whose hit record is a
\* miss adds the environment radiance (times its throughput) to its pixel.
MissKernel(args, n) ==
    LET c == ray_counter_buffer[args["kRayCounterBuffer"][2]]
        x == pixel_indices_buffer[args["kPixelIndicesBuffer"][2]]
        missed == { g \in Slots : g < n /\ g < c /\ hits_buffer[g] = "miss" }
    IN [p \in Pixels |->
          radiance_buffer[p] + EnvColor * Cardinality({ g \in missed : x[g] = p })]

\* resolve_radiance.cl over n work-items: pixel p of the image gets the
\* accumulated radiance of p divided by the sample count read from the
\* buffer bound as sample counter (kept as the pair numerator, denominator).
ResolveKernel(args, n) ==
    LET c == args["kSampleCounterBuffer"]
        samples == IF c[1] = "ray_counter_buffer" THEN ray_counter_buffer[c[2]]
                   ELSE sample_counter_buffer
    IN [p \in Pixels |-> IF p < n THEN <<radiance_buffer[p], samples>>
                         ELSE output_image[p]]

Fail(from) == IF from = "CtorReset" THEN "CtorFailed" ELSE "Faulted"

(* ------------------------------- Reset --------------------------------- *)
\* cl_context_.ExecuteKernel(*reset_kernel_, width_ * height_);
ResetWorkItems_Height == height
ResetWorkItems == width * height
\* Reset(): callable between frames, and called last by the constructor.
Reset ==
    /\ pc = "CtorReset" \/ (pc = "Idle" /\ ResourcesCreated)
    /\ LET clr == SetArgument(clear_counter_args, "0",
                              Handle("sample_counter_buffer", 0))
       IN \E ok1, ok2 \in BOOLEAN :
            LET run1 == CanExecute(clr, ok1)
                run2 == run1 /\ CanExecute(reset_args, ok2)
                cleared == ClearCounterKernel(clr["0"])
            IN /\ clear_counter_args' = clr
               /\ sample_counter_buffer' = IF run1 THEN cleared.sample
                                           ELSE sample_counter_buffer
               /\ ray_counter_buffer' = IF run1 THEN cleared.rays
                                        ELSE ray_counter_buffer
               /\ radiance_buffer' = IF run2 THEN ResetRadianceKernel(ResetWorkItems)
                                     ELSE radiance_buffer
               /\ pc' = IF run2 THEN "Idle" ELSE Fail(pc)
               /\ thrown' = IF run2 THEN thrown ELSE DispatchError
               /\ completed' = 0
               /\ contributed' = IF run2 THEN [p \in Pixels |-> 0] ELSE contributed
               /\ preRadiance' = radiance_buffer'
               /\ preSample' = sample_counter_buffer'
    /\ UNCHANGED <<dimVars, ctorVars, bounce, rays_buffer, pixel_indices_buffer,
                   hits_buffer, throughputs_buffer, output_image, acquired,
                   raygen_args, miss_args, hit_surface_args, resolve_args, reset_args,
                   increment_counter_args, intersect_args, pending, trace, frames,
                   surface_log, generated_with, configured>>

(* ---------------------- SetCameraData / SetSceneData ------------------- *)
\* The generation arguments after SetCameraData(camera): position, front,
\* up, frame count, aperture and focus distance from the camera, the seed
\* from rand().
CameraBindings_Resize(cam, seed) ==
    [s \in RaygenSlots |->
        IF s \in {"kCameraPos", "kCameraFront", "kCameraUp", "kFrameCount",
                  "kAperture", "kFocusDistance", "kWidth"}
        THEN Scalar(cam)
        ELSE IF s = "kFrameSeed" THEN Scalar(seed) ELSE raygen_args[s]]
CameraBindings(cam, seed) ==
    [s \in RaygenSlots |->
        IF s \in {"kCameraPos", "kCameraFront", "kCameraUp", "kFrameCount",
                  "kAperture", "kFocusDistance"}
        THEN Scalar(cam)
        ELSE IF s = "kFrameSeed" THEN Scalar(seed) ELSE raygen_args[s]]

\* SetCameraData(camera)
SetCameraData ==
    /\ pc = "Idle"
    /\ ResourcesCreated
    /\ \E cam \in Cameras, seed \in Seeds :
        raygen_args' = CameraBindings(cam, seed)
    /\ configured' = configured \cup {"SetCameraData"}
    /\ UNCHANGED <<dimVars, ctorVars, pc, thrown, bounce, bufVars, miss_args,
                   hit_surface_args, resolve_args, reset_args, clear_counter_args,
                   increment_counter_args, intersect_args, pending, trace, frames, completed, preRadiance,
                   preSample, surface_log, contributed, generated_with>>

\* SetSceneData(scene): triangle, material and environment-texture handles.
SetSceneData ==
    /\ pc = "Idle"
    /\ ResourcesCreated
    /\ \E scene \in Scenes :
        /\ hit_surface_args' =
             SetArgument(SetArgument(hit_surface_args,
                                     "kTrianglesBuffer", Handle("triangle_buffer", scene)),
                         "kMaterialsBuffer", Handle("material_buffer", scene))
        /\ miss_args' = SetArgument(miss_args, "kIblTextureBuffer",
                                    Handle("env_texture", scene))
    /\ configured' = configured \cup {"SetSceneData"}
    /\ UNCHANGED <<dimVars, ctorVars, pc, thrown, bounce, bufVars, raygen_args,
                   resolve_args, reset_args, clear_counter_args,
                   increment_counter_args, intersect_args, pending, trace, frames, completed, preRadiance,
                   preSample, surface_log, contributed, generated_with>>


(* ------------------------------ Integrate ------------------------------ *)
\* std::uint32_t incoming_idx = bounce & 1;
IncomingIdx_Zero(b) == 0 * b
IncomingIdx(b) == b % 2
\* std::uint32_t outgoing_idx = (bounce + 1) & 1;
OutgoingIdx_Same(b) == b % 2
OutgoingIdx(b) == (b + 1) % 2
\* for (...; bounce < max_bounces_; ...)
LoopContinues_Inclusive == bounce <= max_bounces
LoopContinues == bounce < max_bounces
\* the counter ClearOutgoingRayCounter(bounce) binds to the clear kernel
ClearTarget_Incoming(b) == Handle("ray_counter_buffer", IncomingIdx(b))
ClearTarget_Radiance(b) == Handle("radiance_buffer", 0 * b)
ClearTarget(b) == Handle("ray_counter_buffer", OutgoingIdx(b))
\* the counter AdvanceSampleCount() binds to the increment kernel
IncrementTarget_RayCounter == Handle("ray_counter_buffer", 0)
IncrementTarget == Handle("sample_counter_buffer", 0)

Stage(name, b) == <<name, b>>

\* Integrate() is entered and calls GenerateRays().
GenerateRays ==
    /\ pc = "Idle"
    /\ ResourcesCreated
    /\ frames < MaxFrames
    /\ \E ok \in BOOLEAN :
        LET run == CanExecute(raygen_args, ok)
        IN /\ IF run THEN RayGenerationKernel(raygen_args, NumRays)
              ELSE UNCHANGED <<rays_buffer, pixel_indices_buffer, throughputs_buffer,
                               ray_counter_buffer>>
           /\ generated_with' = IF run THEN raygen_args ELSE generated_with
           /\ pc' = IF run THEN "BounceLoop" ELSE "Faulted"
           /\ thrown' = IF run THEN thrown ELSE DispatchError
    /\ bounce' = 0
    /\ trace' = << Stage("GenerateRays", 0) >>
    /\ frames' = frames + 1
    /\ preRadiance' = radiance_buffer
    /\ preSample' = sample_counter_buffer
    /\ UNCHANGED <<dimVars, ctorVars, radiance_buffer, hits_buffer,
                   sample_counter_buffer, output_image, acquired, argVars, pending,
                   completed, surface_log, contributed, configured>>

\* IntersectRays(bounce)
IntersectRays ==
    /\ pc = "BounceLoop"
    /\ LoopContinues
    /\ LET in == IncomingIdx(bounce)
           passed == [s \in IntersectSlots |->
              CASE s = "rays" -> Handle("rays_buffer", in)
                [] s = "ray_counter" -> Handle("ray_counter_buffer", in)
                [] s = "max_num_rays" -> Scalar(NumRays)
                [] s = "hits" -> Handle("hits_buffer", 0)]
       IN /\ intersect_args' = passed
          /\ \E ok \in BOOLEAN :
              IF ok
              THEN /\ hits_buffer' \in IntersectResults(
                          ray_counter_buffer[passed["ray_counter"][2]],
                          passed["max_num_rays"][2])
                   /\ pc' = "Intersected"
                   /\ thrown' = thrown
              ELSE /\ hits_buffer' = hits_buffer
                   /\ pc' = "Faulted"
                   /\ thrown' = DispatchError
    /\ trace' = Append(trace, Stage("IntersectRays", bounce))
    /\ UNCHANGED <<dimVars, ctorVars, bounce, radiance_buffer, rays_buffer,
                   pixel_indices_buffer, ray_counter_buffer, throughputs_buffer,
                   sample_counter_buffer, output_image, acquired, raygen_args,
                   miss_args, hit_surface_args, resolve_args, reset_args,
                   clear_counter_args, increment_counter_args, pending,
                   frames, completed, preRadiance, preSample, surface_log, contributed,
                   generated_with, configured>>

\* ShadeMissedRays(bounce)
ShadeMissedRays ==
    /\ pc = "Intersected"
    /\ LET in == IncomingIdx(bounce)
           bound == SetArgument(SetArgument(SetArgument(miss_args,
                        "kRayBuffer", Handle("rays_buffer", in)),
                        "kPixelIndicesBuffer", Handle("pixel_indices_buffer", in)),
                        "kRayCounterBuffer", Handle("ray_counter_buffer", in))
       IN /\ miss_args' = bound
          /\ \E ok \in BOOLEAN :
              LET run == CanExecute(bound, ok)
              IN /\ radiance_buffer' = IF run THEN MissKernel(bound, NumRays) ELSE radiance_buffer
                 /\ contributed' = [p \in Pixels |-> contributed[p] +
                                       (radiance_buffer'[p] - radiance_buffer[p])]
                 /\ pc' = IF run THEN "MissShaded" ELSE "Faulted"
                 /\ thrown' = IF run THEN thrown ELSE DispatchError
    /\ trace' = Append(trace, Stage("ShadeMissedRays", bounce))
    /\ UNCHANGED <<dimVars, ctorVars, bounce, rays_buffer, pixel_indices_buffer,
                   ray_counter_buffer, hits_buffer, throughputs_buffer,
                   sample_counter_buffer, output_image, acquired, raygen_args,
                   hit_surface_args, resolve_args, reset_args, clear_counter_args,
                   increment_counter_args, intersect_args, pending, frames, completed,
                   preRadiance, preSample, surface_log, generated_with, configured>>


\* ClearOutgoingRayCounter(bounce)
ClearOutgoingRayCounter ==
    /\ pc = "MissShaded"
    /\ LET bound == SetArgument(clear_counter_args, "0", ClearTarget(bounce))
       IN /\ clear_counter_args' = bound
          /\ \E ok \in BOOLEAN :
              LET run == CanExecute(bound, ok)
                  cleared == ClearCounterKernel(bound["0"])
              IN /\ ray_counter_buffer' = IF run THEN cleared.rays
                                          ELSE ray_counter_buffer
                 /\ sample_counter_buffer' = IF run THEN cleared.sample
                                             ELSE sample_counter_buffer
                 /\ radiance_buffer' = IF run THEN cleared.radiance
                                       ELSE radiance_buffer
                 /\ pc' = IF run THEN "CounterCleared" ELSE "Faulted"
                 /\ thrown' = IF run THEN thrown ELSE DispatchError
    /\ trace' = Append(trace, Stage("ClearOutgoingRayCounter", bounce))
    /\ UNCHANGED <<dimVars, ctorVars, bounce, rays_buffer,
                   pixel_indices_buffer, hits_buffer, throughputs_buffer, output_image,
                   acquired, raygen_args, miss_args, hit_surface_args, resolve_args,
                   reset_args, increment_counter_args, intersect_args, pending, frames,
                   completed, preRadiance, preSample, surface_log, contributed,
                   generated_with, configured>>

\* ShadeSurfaceHits(bounce): the arguments are bound and the kernel is
\* enqueued over max_num_rays work-items.
ShadeSurfaceHits ==
    /\ pc = "CounterCleared"
    /\ LET in == IncomingIdx(bounce)
           out == OutgoingIdx(bounce)
           bound == [s \in HitSurfaceSlots |->
              CASE s = "kIncomingRayBuffer" -> Handle("rays_buffer", in)
                [] s = "kIncomingPixelIndicesBuffer" -> Handle("pixel_indices_buffer", in)
                [] s = "kIncomingRayCounterBuffer" -> Handle("ray_counter_buffer", in)
                [] s = "kOutgoingRayBuffer" -> Handle("rays_buffer", out)
                [] s = "kOutgoingPixelIndicesBuffer" -> Handle("pixel_indices_buffer", out)
                [] s = "kOutgoingRayCounterBuffer" -> Handle("ray_counter_buffer", out)
                [] s = "kBounce" -> Scalar(bounce)
                [] OTHER -> hit_surface_args[s]]
       IN /\ hit_surface_args' = bound
          /\ \E ok \in BOOLEAN :
              LET run == CanExecute(bound, ok)
              IN /\ pending' = IF run THEN 0 .. (NumRays - 1) ELSE pending
                 /\ pc' = IF run THEN "HitShading" ELSE "Faulted"
                 /\ thrown' = IF run THEN thrown ELSE DispatchError
    /\ trace' = Append(trace, Stage("ShadeSurfaceHits", bounce))
    /\ UNCHANGED <<dimVars, ctorVars, bounce, bufVars, raygen_args, miss_args,
                   resolve_args, reset_args, clear_counter_args,
                   increment_counter_args, intersect_args, frames, completed,
                   preRadiance, preSample, surface_log, contributed,
                   generated_with, configured>>

\* hit_surface.cl, one work-item g.  A work-item at or beyond the incoming
\* counter, or whose hit record is not a hit, does nothing.  Otherwise it
\* shades the hit: it adds the radiance of a light to its pixel, and if the
\* path survives it appends ray, pixel index and throughput at the slot
\* returned by the atomic increment of the outgoing counter.
HitSurfaceWorkItem(g) ==
    LET inR == hit_surface_args["kIncomingRayBuffer"][2]
        inX == hit_surface_args["kIncomingPixelIndicesBuffer"][2]
        inC == hit_surface_args["kIncomingRayCounterBuffer"][2]
        outR == hit_surface_args["kOutgoingRayBuffer"][2]
        outX == hit_surface_args["kOutgoingPixelIndicesBuffer"][2]
        outC == hit_surface_args["kOutgoingRayCounterBuffer"][2]
        live == g < ray_counter_buffer[inC] /\ hits_buffer[g] = "hit"
        pixel == pixel_indices_buffer[inX][g]
        path == rays_buffer[inR][g]
        thr == throughputs_buffer[g]
        idx == ray_counter_buffer[outC]
    IN /\ pc = "HitShading"
       /\ g \in pending
       /\ pending' = pending \ {g}
       /\ IF ~live
          THEN UNCHANGED <<radiance_buffer, rays_buffer, pixel_indices_buffer,
                           ray_counter_buffer, throughputs_buffer, contributed>>
          ELSE \E outcome \in HitOutcomes :
                 /\ radiance_buffer' =
                      [radiance_buffer EXCEPT
                         ![pixel] = IF outcome = "light" THEN @ + EnvColor ELSE @]
                 /\ contributed' =
                      [contributed EXCEPT
                         ![pixel] = IF outcome = "light" THEN @ + EnvColor ELSE @]
                 /\ IF outcome = "scatter"
                    THEN /\ ray_counter_buffer' =
                              [ray_counter_buffer EXCEPT ![outC] = (idx + 1)]
                         /\ rays_buffer' = [rays_buffer EXCEPT ![outR][idx] = path]
                         /\ pixel_indices_buffer' =
                              [pixel_indices_buffer EXCEPT ![outX][idx] = pixel]
                         /\ throughputs_buffer' =
                              [throughputs_buffer EXCEPT ![idx] = thr]
                    ELSE UNCHANGED <<rays_buffer, pixel_indices_buffer,
                                     ray_counter_buffer, throughputs_buffer>>
       /\ UNCHANGED <<dimVars, ctorVars, pc, thrown, bounce, hits_buffer,
                      sample_counter_buffer, output_image, acquired, argVars,
                      trace, frames, completed, preRadiance, preSample, surface_log,
                      generated_with, configured>>

HitSurfaceKernel == \E g \in Slots : HitSurfaceWorkItem(g)

\* ++bounce: the dispatch of this bounce is ordered before the next stage.
NextBounce ==
    /\ pc = "HitShading"
    /\ pending = {}
    /\ bounce' = bounce + 1
    /\ pc' = "BounceLoop"
    /\ UNCHANGED <<dimVars, ctorVars, thrown, bufVars, argVars, pending, histVars>>

\* AdvanceSampleCount()
AdvanceSampleCount ==
    /\ pc = "BounceLoop"
    /\ ~LoopContinues
    /\ LET bound == SetArgument(increment_counter_args, "0", IncrementTarget)
       IN /\ increment_counter_args' = bound
          /\ \E ok \in BOOLEAN :
              LET run == CanExecute(bound, ok)
                  inc == IncrementCounterKernel(bound["0"])
              IN /\ sample_counter_buffer' = IF run THEN inc.sample
                                             ELSE sample_counter_buffer
                 /\ ray_counter_buffer' = IF run THEN inc.rays ELSE ray_counter_buffer
                 /\ pc' = IF run THEN "SampleAdvanced" ELSE "Faulted"
                 /\ thrown' = IF run THEN thrown ELSE DispatchError
    /\ trace' = Append(trace, Stage("AdvanceSampleCount", 0))
    /\ UNCHANGED <<dimVars, ctorVars, bounce, radiance_buffer, rays_buffer,
                   pixel_indices_buffer, hits_buffer, throughputs_buffer, output_image,
                   acquired, raygen_args, miss_args, hit_surface_args, resolve_args,
                   reset_args, clear_counter_args, intersect_args, pending, frames,
                   completed, preRadiance, preSample, surface_log, contributed,
                   generated_with, configured>>

\* ResolveRadiance(): AcquireGLObject, ExecuteKernel(resolve), Finish,
\* ReleaseGLObject, in the order of the source.  Each call can fail; the
\* exception skips the calls after it.
ResolveCalls_DispatchFirst == <<"dispatch", "acquire", "finish", "release">>
ResolveCalls == <<"acquire", "dispatch", "finish", "release">>
ResolveOutcomes == {"ok", "acquire", "dispatch", "finish", "release"}

\* The calls that returned when the call named by outcome is the one that
\* throws ("ok": none throws).
CallsDone(outcome) ==
    IF outcome = "ok" THEN ResolveCalls
    ELSE LET k == CHOOSE i \in DOMAIN ResolveCalls : ResolveCalls[i] = outcome
         IN SubSeq(ResolveCalls, 1, k - 1)

\* Whether the GL object is held after the calls, held being its state before.
RECURSIVE HeldAfter(_, _)
HeldAfter(held, calls) ==
    IF calls = <<>> THEN held
    ELSE HeldAfter(CASE Head(calls) = "acquire" -> TRUE
                     [] Head(calls) = "release" -> FALSE
                     [] OTHER -> held,
                   Tail(calls))

ResolveRadiance ==
    /\ pc = "SampleAdvanced"
    /\ \E outcome \in ResolveOutcomes :
        LET o == IF outcome = "ok" /\ ~AllBound(resolve_args) THEN "dispatch"
                 ELSE outcome
            done == CallsDone(o)
        IN /\ acquired' = HeldAfter(acquired, done)
           /\ output_image' = IF \E i \in DOMAIN done : done[i] = "dispatch"
                              THEN ResolveKernel(resolve_args, NumRays) ELSE output_image
           /\ surface_log' = done
           /\ pc' = IF o = "ok" THEN "Idle" ELSE "Faulted"
           /\ thrown' = IF o = "ok" THEN thrown ELSE DispatchError
           /\ completed' = IF o = "ok" THEN completed + 1 ELSE completed
           /\ preRadiance' = IF o = "ok" THEN radiance_buffer ELSE preRadiance
           /\ preSample' = IF o = "ok" THEN sample_counter_buffer ELSE preSample
    /\ trace' = Append(trace, Stage("ResolveRadiance", 0))
    /\ UNCHANGED <<dimVars, ctorVars, bounce, radiance_buffer, rays_buffer,
                   pixel_indices_buffer, ray_counter_buffer, hits_buffer,
                   throughputs_buffer, sample_counter_buffer, argVars, pending, frames,
                   contributed, generated_with, configured>>

(* --------------------------- specification ----------------------------- *)
Constructor == CreateResource \/ CreateKernels
Frame == \/ IntersectRays \/ ShadeMissedRays \/ ClearOutgoingRayCounter
         \/ ShadeSurfaceHits \/ HitSurfaceKernel \/ NextBounce
         \/ AdvanceSampleCount \/ ResolveRadiance

Next == \/ Constructor
        \/ Reset
        \/ SetCameraData
        \/ SetSceneData
        \/ GenerateRays
        \/ Frame

Spec == Init /\ [][Next]_vars

\* The controlling thread runs a started Integrate() on, and the device
\* runs what has been enqueued.
FairSpec == Spec /\ WF_vars(Frame)

\* The integrator constructed at 4 x 4 with one bounce over a scene without
\* geometry.
ScenarioInit == Entry(4, 4, 1, "empty")
ScenarioSpec == ScenarioInit /\ [][Next]_vars


(* ============================== claims ================================= *)
RECURSIVE BounceStages(_, _)
BounceStages(b, n) ==
    IF b >= n THEN <<>>
    ELSE << Stage("IntersectRays", b), Stage("ShadeMissedRays", b),
            Stage("ClearOutgoingRayCounter", b), Stage("ShadeSurfaceHits", b) >>
         \o BounceStages(b + 1, n)

ExpectedStages(n) ==
    << Stage("GenerateRays", 0) >> \o BounceStages(0, n)
    \o << Stage("AdvanceSampleCount", 0), Stage("ResolveRadiance", 0) >>

IsPrefix(s, t) == Len(s) <= Len(t) /\ SubSeq(t, 1, Len(s)) = s

InFrame == pc \in {"BounceLoop", "Intersected", "MissShaded", "CounterCleared",
                   "HitShading", "SampleAdvanced"}
InBounce == pc \in {"Intersected", "MissShaded", "CounterCleared", "HitShading"}

\* The stages issued so far by an Integrate() that met no failure are a
\* prefix of the prescribed sequence: a proper one while the call runs, the
\* whole sequence once it has returned.
StagesInOrder ==
    thrown = NoError =>
        /\ IsPrefix(trace, ExpectedStages(max_bounces))
        /\ InFrame => Len(trace) < Len(ExpectedStages(max_bounces))
        /\ (pc = "Idle" /\ trace # <<>>) => trace = ExpectedStages(max_bounces)

\* C1: one Integrate() that meets no dispatch failure issues GenerateRays,
\* then for bounce 0 .. max_bounces-1 in increasing order IntersectRays,
\* ShadeMissedRays, ClearOutgoingRayCounter, ShadeSurfaceHits, then
\* AdvanceSampleCount, then ResolveRadiance, nothing skipped, repeated or
\* reordered; and every started Integrate() ends.
C1_StageSequence == [](StagesInOrder) /\ (InFrame ~> ~InFrame)

C1_Witness ==
    /\ pc = "Idle" /\ thrown = NoError
    /\ max_bounces = MaxBounces
    /\ frames = MaxFrames
    /\ trace = ExpectedStages(max_bounces)

\* C2: in every bounce b of every frame the counter of parity (b+1)&1 has
\* been set to 0 by ClearOutgoingRayCounter(b), issued right after
\* ShadeMissedRays(b), when ShadeSurfaceHits(b) is issued, and it is 0 when
\* the first work-item of hit-shading runs.
C2_OutgoingCleared ==
    LET n == Len(trace)
        out == (bounce + 1) % 2
    IN /\ pc = "CounterCleared" =>
            /\ ray_counter_buffer[out] = 0
            /\ trace[n] = Stage("ClearOutgoingRayCounter", bounce)
            /\ trace[n - 1] = Stage("ShadeMissedRays", bounce)
       /\ (pc = "HitShading" /\ pending = Slots) =>
            /\ ray_counter_buffer[out] = 0
            /\ trace[n] = Stage("ShadeSurfaceHits", bounce)
            /\ trace[n - 1] = Stage("ClearOutgoingRayCounter", bounce)

\* A later frame whose outgoing stream of bounce 0 was appended to by the
\* frame before, at the start of hit-shading.
C2_Witness ==
    /\ frames = 2 /\ bounce = 0 /\ width = 2
    /\ pc = "HitShading" /\ pending = Slots
    /\ rays_buffer[1][1] # Undef
    /\ ray_counter_buffer[1] = 0

\* C3: IntersectRays(b), ShadeMissedRays(b) and ShadeSurfaceHits(b) read the
\* triple b&1; ShadeSurfaceHits(b) and ClearOutgoingRayCounter(b) target the
\* triple (b+1)&1; the two differ; the incoming triple of bounce 0 is the
\* one GenerateRays writes; the outgoing triple of bounce b is the incoming
\* triple of bounce b+1.
C3_PingPongParity ==
    LET in == bounce % 2
        out == (bounce + 1) % 2
    IN /\ InBounce =>
            /\ intersect_args["rays"] = Handle("rays_buffer", in)
            /\ intersect_args["ray_counter"] = Handle("ray_counter_buffer", in)
            /\ bounce = 0 =>
                 /\ intersect_args["rays"] = raygen_args["kRayBuffer"]
                 /\ intersect_args["ray_counter"] = raygen_args["kRayCounterBuffer"]
            /\ (bounce > 0 /\ pc # "HitShading") =>
                 /\ intersect_args["rays"] = hit_surface_args["kOutgoingRayBuffer"]
                 /\ intersect_args["ray_counter"] =
                        hit_surface_args["kOutgoingRayCounterBuffer"]
       /\ pc \in {"MissShaded", "CounterCleared", "HitShading"} =>
            /\ miss_args["kRayBuffer"] = Handle("rays_buffer", in)
            /\ miss_args["kPixelIndicesBuffer"] = Handle("pixel_indices_buffer", in)
            /\ miss_args["kRayCounterBuffer"] = Handle("ray_counter_buffer", in)
            /\ bounce = 0 =>
                 miss_args["kPixelIndicesBuffer"] = raygen_args["kPixelIndicesBuffer"]
       /\ pc \in {"CounterCleared", "HitShading"} =>
            clear_counter_args["0"] = Handle("ray_counter_buffer", out)
       /\ pc = "HitShading" =>
            /\ hit_surface_args["kIncomingRayBuffer"] = Handle("rays_buffer", in)
            /\ hit_surface_args["kIncomingPixelIndicesBuffer"] =
                   Handle("pixel_indices_buffer", in)
            /\ hit_surface_args["kIncomingRayCounterBuffer"] =
                   Handle("ray_counter_buffer", in)
            /\ hit_surface_args["kOutgoingRayBuffer"] = Handle("rays_buffer", out)
            /\ hit_surface_args["kOutgoingPixelIndicesBuffer"] =
                   Handle("pixel_indices_buffer", out)
            /\ hit_surface_args["kOutgoingRayCounterBuffer"] =
                   Handle("ray_counter_buffer", out)
            /\ hit_surface_args["kIncomingRayBuffer"] #
                   hit_surface_args["kOutgoingRayBuffer"]
            /\ hit_surface_args["kIncomingRayCounterBuffer"] #
                   hit_surface_args["kOutgoingRayCounterBuffer"]
            /\ hit_surface_args["kIncomingPixelIndicesBuffer"] #
                   hit_surface_args["kOutgoingPixelIndicesBuffer"]

\* Hit-shading of bounce 1 running: it reads triple 1, which bounce 0 wrote.
C3_Witness ==
    /\ pc = "HitShading" /\ bounce = 1
    /\ hit_surface_args["kIncomingRayBuffer"] = Handle("rays_buffer", 1)
    /\ hit_surface_args["kOutgoingRayBuffer"] = Handle("rays_buffer", 0)
    /\ ray_counter_buffer[1] > 0

\* C4: SampleCounter is incremented exactly once per completed Integrate(),
\* after the last ShadeSurfaceHits of the frame and before the resolve
\* dispatch; after k completed Integrate() calls since the last Reset it
\* equals k, whatever SetCameraData / SetSceneData calls came between.
C4_SampleCounter ==
    (thrown = NoError /\ (pc = "Idle" \/ InFrame)) =>
        /\ sample_counter_buffer =
              completed + (IF pc = "SampleAdvanced" THEN 1 ELSE 0)
        /\ pc = "SampleAdvanced" =>
              trace[Len(trace)] = Stage("AdvanceSampleCount", 0)

C4_Witness ==
    /\ pc = "Idle" /\ thrown = NoError
    /\ completed = 2 /\ sample_counter_buffer = 2
    /\ max_bounces = 2
    /\ raygen_args["kFrameSeed"] = Scalar(2)

\* C5: in every frame, after GenerateRays the generation stage has written
\* exactly width * height rays into stream 0, ray counter 0 equals
\* width * height and pixel-index stream 0 is the identity.
C5_Generation ==
    (pc = "BounceLoop" /\ bounce = 0) =>
        /\ ray_counter_buffer[0] = width * height
        /\ DOMAIN rays_buffer[0] = 0 .. (width * height - 1)
        /\ \A s \in 0 .. (width * height - 1) :
              /\ rays_buffer[0][s] = s
              /\ pixel_indices_buffer[0][s] = s

\* Generation of a second frame, after a frame whose second bounce left
\* fewer than width * height rays in stream 0.
C5_Witness ==
    /\ pc = "BounceLoop" /\ bounce = 0
    /\ frames = 2 /\ width = 2 /\ max_bounces = 2
    /\ hits_buffer[0] # "undef" /\ hits_buffer[1] = "undef"
    /\ ray_counter_buffer[0] = 2

\* C6: while and after the work-items of ShadeSurfaceHits(b) run, in any
\* order, counter[(b+1)&1] is >= 0 and <= counter[b&1].
C6_Compaction ==
    pc = "HitShading" =>
        /\ ray_counter_buffer[(bounce + 1) % 2] >= 0
        /\ ray_counter_buffer[(bounce + 1) % 2] <= ray_counter_buffer[bounce % 2]
        /\ ray_counter_buffer[(bounce + 1) % 2] <=
              Cardinality({ g \in Slots \ pending :
                              g < ray_counter_buffer[bounce % 2]
                              /\ hits_buffer[g] = "hit" })

\* Two rays came in, both work-items have run, the second one first, and one
\* ray went out.
C6_Witness ==
    /\ pc = "HitShading" /\ pending = {}
    /\ ray_counter_buffer[bounce % 2] = 2
    /\ ray_counter_buffer[(bounce + 1) % 2] = 1
    /\ pixel_indices_buffer[(bounce + 1) % 2][0] = 1

\* C7: wherever a stage reads a ray counter as the length of its incoming
\* stream (intersection, miss-shading, hit-shading of any bounce of any
\* frame), that counter is <= width * height.
C7_Capacity ==
    ((pc = "BounceLoop" /\ bounce < max_bounces) \/ InBounce) =>
        ray_counter_buffer[bounce % 2] <= width * height

\* Bounce 1 of a second frame reads a full stream.
C7_Witness ==
    /\ pc = "Intersected" /\ bounce = 1 /\ frames = 2 /\ width = 2
    /\ ray_counter_buffer[1] = width * height

ZeroRadiance == \A p \in Pixels : radiance_buffer[p] = 0

\* C8: a Reset() that returns leaves every pixel of RadianceAccumulator and
\* SampleCounter at 0, from any state in which it can be called; a Reset()
\* right after a Reset() changes nothing.
C8_Reset ==
    [][ (Reset /\ pc' = "Idle") =>
          /\ ZeroRadiance' /\ sample_counter_buffer' = 0
          /\ (pc = "Idle" /\ completed = 0) => UNCHANGED vars
      ]_vars

\* After two completed frames that accumulated radiance, and a Reset.
C8_Witness ==
    /\ pc = "Idle" /\ frames = 2 /\ completed = 0
    /\ ZeroRadiance /\ sample_counter_buffer = 0
    /\ output_image[0] = <<2, 2>>

\* C9: when a dispatch fails inside Integrate(), no later stage of the
\* frame is dispatched and RadianceAccumulator and SampleCounter equal the
\* values they had before that Integrate() call.  (preRadiance and
\* preSample are taken when Integrate() is entered; a failing Reset() leaves
\* them equal to the buffers.)
C9_NoPartialCommit ==
    pc = "Faulted" =>
        /\ thrown = DispatchError
        /\ radiance_buffer = preRadiance
        /\ sample_counter_buffer = preSample

\* C10: if the creation of any device resource fails, construction aborts:
\* no kernel is created or bound and Reset() is not dispatched.
C10_ConstructionAborts ==
    lastFailure # NoFailure =>
        /\ pc \in {"Ctor", "CtorFailed"}
        /\ raygen_args = UnboundArgs(RaygenSlots)
        /\ clear_counter_args = UnboundArgs(CounterSlots)

\* The resource a creation-failure message names.
NamedResource(message) ==
    CASE message = "Failed to create radiance buffer" -> "radiance_buffer"
      [] message = "Failed to create output image" -> "output_image"
      [] OTHER -> "none"

\* Construction was aborted at one of the status checks.
AbortedByCreation == pc = "CtorFailed" /\ ctorIdx <= Len(CtorResources)

\* C11: whenever construction is aborted by a resource-creation failure, the
\* error thrown names the resource whose creation failed and carries the
\* status that creation returned.
C11_ErrorNamesResource ==
    AbortedByCreation =>
        /\ lastFailure[1] = CtorResources[ctorIdx]
        /\ NamedResource(thrown[1]) = lastFailure[1]
        /\ thrown[2] = lastFailure[2]

\* C12: the display surface is written only inside an acquire/release
\* bracket.  The calls of a ResolveRadiance() are, in this order, acquire,
\* resolve dispatch, Finish, release; only the resolve dispatch of
\* ResolveRadiance changes the surface; and while the integrator is idle,
\* generating, in a bounce stage or in Reset / SetCameraData / SetSceneData
\* the surface is not held acquired, every completed frame having made all
\* four calls.
C12_SurfaceBracket ==
    /\ [](/\ IsPrefix(surface_log, <<"acquire", "dispatch", "finish", "release">>)
          /\ (pc \in {"CtorReset", "Idle"} \/ InFrame) => ~acquired
          /\ (pc = "Idle" /\ completed > 0) =>
                surface_log = <<"acquire", "dispatch", "finish", "release">>)
    /\ [][ output_image' # output_image =>
             /\ ResolveRadiance
             /\ \E i \in DOMAIN surface_log' :
                  /\ surface_log'[i] = "dispatch"
                  /\ \E j \in 1 .. (i - 1) : surface_log'[j] = "acquire"
                  /\ \A j \in 1 .. (i - 1) : surface_log'[j] # "release"
         ]_vars

\* Two frames completed, the surface written by the second and released.
C12_Witness ==
    /\ pc = "Idle" /\ completed = 2 /\ ~acquired
    /\ surface_log = <<"acquire", "dispatch", "finish", "release">>
    /\ output_image[0][2] = 2

ZeroBounceStages ==
    << Stage("GenerateRays", 0), Stage("AdvanceSampleCount", 0),
       Stage("ResolveRadiance", 0) >>

\* C13: with max_bounces = 0 an Integrate() dispatches generation once,
\* advances SampleCounter exactly once and resolves once, dispatches no
\* IntersectRays, ShadeMissedRays, ClearOutgoingRayCounter or
\* ShadeSurfaceHits, and leaves RadianceAccumulator, the hit records and ray
\* counter 1 unchanged.
C13_ZeroBounces ==
    /\ []((max_bounces = 0 /\ thrown = NoError) =>
            /\ IsPrefix(trace, ZeroBounceStages)
            /\ (pc = "Idle" /\ trace # <<>>) => trace = ZeroBounceStages
            /\ pc = "BounceLoop" => sample_counter_buffer = preSample
            /\ pc = "SampleAdvanced" => sample_counter_buffer = preSample + 1
            /\ InFrame => radiance_buffer = preRadiance)
    /\ [][ (max_bounces = 0 /\ (GenerateRays \/ Frame)) =>
             /\ AdvanceSampleCount \/ ResolveRadiance \/ GenerateRays
             /\ radiance_buffer' = radiance_buffer
             /\ ray_counter_buffer'[1] = ray_counter_buffer[1]
             /\ hits_buffer' = hits_buffer
             /\ ResolveRadiance => sample_counter_buffer' = sample_counter_buffer
         ]_vars

\* Two frames without bounces completed; ray counter 1 still holds what the
\* allocation left in it, above the capacity of the stream.
C13_Witness ==
    /\ max_bounces = 0 /\ pc = "Idle" /\ thrown = NoError
    /\ completed = 2 /\ sample_counter_buffer = 2
    /\ Len(trace) = 3
    /\ ray_counter_buffer[1] = NumRays + 1
    /\ ZeroRadiance

\* C14: at 4 x 4 with max_bounces = 1 over a scene in which every ray
\* misses, with the environment returning EnvColor and initial throughput 1,
\* after construction and one Integrate() every one of the 16 pixels of
\* RadianceAccumulator equals EnvColor, SampleCounter is 1 and the resolved
\* surface holds EnvColor (EnvColor over 1 sample) in every pixel.
C14_AlwaysMiss ==
    (pc = "Idle" /\ completed = 1) =>
        /\ Cardinality(Pixels) = 16
        /\ \A p \in Pixels : radiance_buffer[p] = EnvColor
        /\ sample_counter_buffer = 1
        /\ \A p \in Pixels : output_image[p] = <<EnvColor, 1>>

\* The first Integrate() after construction has returned.
C14_Witness ==
    /\ pc = "Idle" /\ completed = 1 /\ frames = 1
    /\ width = 4 /\ height = 4 /\ max_bounces = 1
    /\ \A s \in Slots : hits_buffer[s] = "miss"
    /\ output_image[15] = <<EnvColor, 1>>

\* C15: between two Resets RadianceAccumulator only grows, by what
\* miss-shading and hit-shading add: GenerateRays, IntersectRays,
\* ClearOutgoingRayCounter, AdvanceSampleCount, ResolveRadiance,
\* SetCameraData and SetSceneData leave every pixel unchanged, and
\* ResolveRadiance leaves SampleCounter unchanged.
C15_AccumulatorAdditive ==
    [][ /\ (\/ GenerateRays \/ IntersectRays \/ ClearOutgoingRayCounter
            \/ AdvanceSampleCount \/ ResolveRadiance \/ SetCameraData
            \/ SetSceneData) => radiance_buffer' = radiance_buffer
        /\ ResolveRadiance => sample_counter_buffer' = sample_counter_buffer
        /\ (pc = "Idle" \/ InFrame) /\ ~Reset =>
              \A p \in Pixels : radiance_buffer'[p] >= radiance_buffer[p]
        /\ (pc = "Idle" \/ InFrame) /\ radiance_buffer' # radiance_buffer =>
              Reset \/ ShadeMissedRays \/ HitSurfaceKernel
      ]_vars

\* The second frame since the Reset: hit-shading has added the radiance of a
\* light to pixel 0 on top of what the first frame accumulated there.
C15_Witness ==
    /\ pc = "HitShading" /\ bounce = 0 /\ completed = 1
    /\ hits_buffer[0] = "hit" /\ ~(0 \in pending)
    /\ preRadiance[0] = 1
    /\ radiance_buffer[0] = 2

\* C16: when the resolve dispatch of the N-th Integrate() since the most
\* recent Reset runs, SampleCounter equals N (N >= 1, so the divisor is not
\* 0), and the value resolved for each pixel is the sum of what the shading
\* stages contributed to that pixel over those N frames, divided by N; for
\* every max_bounces and whatever SetCameraData / SetSceneData calls came
\* between the frames.
C16_Normalisation ==
    /\ (pc = "SampleAdvanced" /\ thrown = NoError) =>
          /\ sample_counter_buffer = completed + 1
          /\ sample_counter_buffer > 0
          /\ resolve_args["kSampleCounterBuffer"] = Handle("sample_counter_buffer", 0)
          /\ radiance_buffer = contributed
    /\ (pc = "Idle" /\ completed >= 1) =>
          \A p \in Pixels : output_image[p] = <<contributed[p], completed>>

\* The second frame since a Reset that followed an earlier frame has been
\* resolved: two samples, with a different seed for the second.
C16_Witness ==
    /\ pc = "Idle" /\ completed = 2 /\ width = 2
    /\ output_image[0] = <<2, 2>> /\ output_image[1] = <<1, 2>>
    /\ raygen_args["kFrameSeed"] = Scalar(2)

\* C17: in ShadeSurfaceHits(b), under every order of the work-items, the
\* throughput a work-item reads for incoming slot i is the one written for
\* the path in that slot (by generation or by hit-shading of bounce b-1),
\* never an entry a work-item of the same dispatch has appended for an
\* outgoing slot.
C17_NoThroughputAliasing ==
    pc = "HitShading" =>
        \A g \in pending :
            (g < ray_counter_buffer[bounce % 2] /\ hits_buffer[g] = "hit") =>
                throughputs_buffer[g] = rays_buffer[bounce % 2][g]

CameraSlots == {"kCameraPos", "kCameraFront", "kCameraUp", "kFrameCount",
                "kFrameSeed", "kAperture", "kFocusDistance"}

\* C18: SetCameraData changes only the seven camera arguments of the
\* generation stage and no device buffer; nothing else changes them after
\* construction, so a GenerateRays dispatch runs with the arguments of the
\* most recent SetCameraData, and a frame without a SetCameraData before it
\* runs with the camera arguments, seed included, of the frame before.
C18_CameraSticky ==
    /\ [](InFrame => /\ generated_with = raygen_args
                     /\ \A s \in CameraSlots : generated_with[s] # Unbound)
    /\ [][ /\ SetCameraData =>
                /\ \A s \in RaygenSlots \ CameraSlots : raygen_args'[s] = raygen_args[s]
                /\ \A s \in CameraSlots : raygen_args'[s] # Unbound
                /\ UNCHANGED <<bufVars, miss_args, hit_surface_args, resolve_args,
                               reset_args, clear_counter_args, increment_counter_args>>
           /\ ((pc = "Idle" \/ InFrame) /\ ~SetCameraData) =>
                raygen_args' = raygen_args
           /\ (GenerateRays /\ pc' = "BounceLoop" /\ generated_with = raygen_args) =>
                \A s \in CameraSlots : generated_with'[s] = generated_with[s]
         ]_vars

\* Generation of a second frame that ran with seed 2, at two pixels.
C18_Witness ==
    /\ pc = "BounceLoop" /\ bounce = 0 /\ frames = 2 /\ completed = 1
    /\ width = 2
    /\ generated_with["kFrameSeed"] = Scalar(2)
    /\ generated_with["kWidth"] = Scalar(2)

\* C19: the one clear-counter kernel is rebound right before each of its
\* dispatches: under any sequence of Reset and Integrate calls the dispatch
\* of Reset zeroes SampleCounter and no ray counter, the dispatch of
\* ClearOutgoingRayCounter(b) zeroes ray counter (b+1)&1 and neither
\* SampleCounter nor ray counter b&1, and the increment kernel increments
\* SampleCounter and nothing else.
C19_SharedCounterKernels ==
    [][ /\ Reset =>
             /\ clear_counter_args'["0"] = Handle("sample_counter_buffer", 0)
             /\ ray_counter_buffer' = ray_counter_buffer
             /\ pc' = "Idle" => sample_counter_buffer' = 0
        /\ ClearOutgoingRayCounter =>
             /\ clear_counter_args'["0"] =
                    Handle("ray_counter_buffer", (bounce + 1) % 2)
             /\ sample_counter_buffer' = sample_counter_buffer
             /\ ray_counter_buffer'[bounce % 2] = ray_counter_buffer[bounce % 2]
             /\ pc' = "CounterCleared" => ray_counter_buffer'[(bounce + 1) % 2] = 0
        /\ AdvanceSampleCount =>
             /\ increment_counter_args'["0"] = Handle("sample_counter_buffer", 0)
             /\ ray_counter_buffer' = ray_counter_buffer
             /\ pc' = "SampleAdvanced" =>
                    sample_counter_buffer' = sample_counter_buffer + 1
      ]_vars

\* A Reset after a frame whose last use of the clear kernel was on ray
\* counter 1: SampleCounter is 0 again and the ray counters are as the frame
\* left them.
C19_Witness ==
    /\ pc = "Idle" /\ frames = 1 /\ completed = 0
    /\ max_bounces = 1 /\ width = 2
    /\ trace = ExpectedStages(1)
    /\ clear_counter_args["0"] = Handle("sample_counter_buffer", 0)
    /\ sample_counter_buffer = 0
    /\ ray_counter_buffer[0] = 2 /\ ray_counter_buffer[1] = 2

UnboundSlots(args) == { s \in DOMAIN args : args[s] = Unbound }

\* The slots a stage binds itself right before its dispatch.
MissPerDispatch == {"kRayBuffer", "kPixelIndicesBuffer", "kRayCounterBuffer"}
HitPerDispatch == {"kIncomingRayBuffer", "kIncomingPixelIndicesBuffer",
                   "kIncomingRayCounterBuffer", "kOutgoingRayBuffer",
                   "kOutgoingPixelIndicesBuffer", "kOutgoingRayCounterBuffer",
                   "kBounce"}

\* C20: once SetCameraData and SetSceneData have each been called, every
\* kernel dispatch of Reset and Integrate (reset, generation, miss,
\* hit-surface, clear-counter, increment-counter, resolve) finds every
\* declared argument slot of its kernel bound; and of the slots a dispatch
\* needs, construction alone leaves unbound exactly the seven camera slots
\* of generation, the environment-texture slot of miss-shading and the
\* triangle and material slots of hit-shading.
C20_ArgumentsBound ==
    /\ [](pc = "Idle" =>
            /\ UnboundSlots(raygen_args) =
                 IF "SetCameraData" \in configured THEN {} ELSE CameraSlots
            /\ UnboundSlots(miss_args) \ MissPerDispatch =
                 IF "SetSceneData" \in configured THEN {} ELSE {"kIblTextureBuffer"}
            /\ UnboundSlots(hit_surface_args) \ HitPerDispatch =
                 IF "SetSceneData" \in configured THEN {}
                 ELSE {"kTrianglesBuffer", "kMaterialsBuffer"}
            /\ UnboundSlots(resolve_args) = {}
            /\ UnboundSlots(reset_args) = {}
            /\ UnboundSlots(clear_counter_args) = {})
    /\ [][ configured = {"SetCameraData", "SetSceneData"} =>
             /\ Reset => AllBound(clear_counter_args') /\ AllBound(reset_args')
             /\ GenerateRays => AllBound(raygen_args')
             /\ ShadeMissedRays => AllBound(miss_args')
             /\ ClearOutgoingRayCounter => AllBound(clear_counter_args')
             /\ ShadeSurfaceHits => AllBound(hit_surface_args')
             /\ AdvanceSampleCount => AllBound(increment_counter_args')
             /\ ResolveRadiance => AllBound(resolve_args')
         ]_vars

\* Hit-shading of the second bounce of a second frame has been dispatched,
\* after both SetCameraData and SetSceneData.
C20_Witness ==
    /\ configured = {"SetCameraData", "SetSceneData"}
    /\ pc = "HitShading" /\ bounce = 1 /\ frames = 2
    /\ AllBound(hit_surface_args) /\ AllBound(miss_args) /\ AllBound(raygen_args)

====
